---- MODULE Spec2Model ----
(***************************************************************************)
(* Model of src/lambdas/disaster-recovery/productDynamoDB.py: a Lambda     *)
(* handler doing CRUD on one DynamoDB table ('Product') and, on an         *)
(* EventBridge trigger, creating a backup of it.                           *)
(*                                                                         *)
(* A JSON key that is missing is modelled by the value Absent; a JSON      *)
(* value is a record [type, val].  A Decimal d is the integer d * Scale.   *)
(***************************************************************************)
EXTENDS Integers, Sequences, FiniteSets, TLC

VARIABLES
    store,       \* productTable: product_id -> item (a function field -> value)
    tableOrder,  \* the order in which the table's partitions are scanned
    issued,      \* the ids uuid.uuid4() has returned so far
    last,        \* the last invocation: its event, its response, its store calls
    scanLimit,   \* pagination client: the limit it passes to get_products
    scanKey,     \* pagination client: the LastEvaluatedKey of the last page
    scanItems,   \* pagination client: the items of the pages read so far
    scanCalls,   \* pagination client: calls of get_products since it (re)started
    scanPc,      \* pagination client: "idle", "paging" or "done"
    encIn,       \* encoder client: the Decimal handed to DecimalEncoder.default
    encOut       \* encoder client: what DecimalEncoder.default returned

vars == <<store, tableOrder, issued, last,
          scanLimit, scanKey, scanItems, scanCalls, scanPc, encIn, encOut>>

handlerVars == <<store, tableOrder, issued, last>>
scanVars == <<scanLimit, scanKey, scanItems, scanCalls, scanPc>>
encVars == <<encIn, encOut>>

(***************************************************************************)
(* Bounds                                                                  *)
(***************************************************************************)
MaxUuid == 2       \* distinct ids uuid4 can return
MaxLimit == 2      \* largest page size the pagination client asks for
MaxDecimal == 30   \* Decimals range over -MaxDecimal/Scale .. MaxDecimal/Scale
Scale == 4         \* a Decimal is a multiple of 1/Scale

Absent == "<absent>"

Uuid(n) == "uuid-" \o ToString(n)
Uuids == {Uuid(n) : n \in 1..MaxUuid}

\* Text values a client sends; the empty string is one of them.
Texts == {"", "computer"}

(***************************************************************************)
(* JSON values and request bodies                                          *)
(***************************************************************************)
Str(s) == [type |-> "string", val |-> s]
Num(s) == [type |-> "number", val |-> s]
NoValue == [type |-> Absent, val |-> ""]

Has(obj, key) == obj[key].type # Absent

\* json.loads(event['body']): an object with some of the three keys, or an array.
ObjectBody(id, category, title) ==
    [kind |-> "object", product_id |-> id,
     product_category |-> category, product_title |-> title]
ArrayBody ==
    [kind |-> "array", product_id |-> NoValue,
     product_category |-> NoValue, product_title |-> NoValue]
NoBody ==
    [kind |-> Absent, product_id |-> NoValue,
     product_category |-> NoValue, product_title |-> NoValue]

IdValues == {NoValue, Num("5")} \cup {Str(u) : u \in Uuids}
TextValues == {NoValue, Num("5")} \cup {Str(t) : t \in Texts}
ObjectBodies ==
    {ObjectBody(i, c, t) : i \in IdValues, c \in TextValues, t \in TextValues}
Bodies == ObjectBodies \cup {ArrayBody, NoBody}

(***************************************************************************)
(* Schemas and jsonschema.validate                                         *)
(***************************************************************************)
product_schema ==
    [type |-> "object",
     properties |-> <<"product_category", "product_title">>,
     required |-> <<"product_category", "product_title">>]

update_product_schema ==
    [type |-> "object",
     properties |-> <<"product_id", "product_category", "product_title">>,
     required |-> <<"product_id", "product_category", "product_title">>]

\* The fields, in order, that the instance lacks (wantMissing) or holds with a
\* value that is not a string.
RECURSIVE Failing(_, _, _)
Failing(instance, fields, wantMissing) ==
    IF fields = <<>> THEN <<>>
    ELSE LET k == Head(fields)
             bad == IF wantMissing THEN ~Has(instance, k)
                    ELSE Has(instance, k) /\ instance[k].type # "string"
         IN (IF bad THEN <<k>> ELSE <<>>) \o Failing(instance, Tail(fields), wantMissing)

\* Variant: validate checking the required keys only, not the types.
validate_presence_only(instance, schema) ==
    IF instance.kind # schema.type
    THEN "[] is not of type 'object'"
    ELSE LET missing == Failing(instance, schema.required, TRUE)
         IN IF missing # <<>>
            THEN "'" \o Head(missing) \o "' is a required property"
            ELSE ""

\* validate(instance, schema): "" when the instance is valid, else the message
\* of the ValidationError raised (the most relevant error: a missing required
\* key of the object before a wrongly typed property).
validate(instance, schema) ==
    IF instance.kind # schema.type
    THEN "[] is not of type 'object'"
    ELSE LET missing == Failing(instance, schema.required, TRUE)
             illTyped == Failing(instance, schema.properties, FALSE)
         IN IF missing # <<>>
            THEN "'" \o Head(missing) \o "' is a required property"
            ELSE IF illTyped # <<>>
            THEN instance[Head(illTyped)].val \o " is not of type 'string'"
            ELSE ""

(***************************************************************************)
(* DecimalEncoder                                                          *)
(***************************************************************************)
\* Python's Decimal remainder o % 1 takes the sign of the dividend.
DecimalMod1(o) == IF o >= 0 THEN o % Scale ELSE -((-o) % Scale)

\* int(o) truncates towards zero.
DecimalInt(o) == IF o >= 0 THEN o \div Scale ELSE -((-o) \div Scale)

\* What json emits for a Decimal: an int (its value) or a float (its value
\* times Scale).
DecimalEncoder_default(o) ==
    IF DecimalMod1(o) > 0
    THEN [type |-> "float", scaled |-> o]
    ELSE [type |-> "int", scaled |-> DecimalInt(o) * Scale]

\* json.dumps(item, cls=DecimalEncoder) of a stored item: strings as they are,
\* Decimals through the encoder.
Numeric == {"sum_rating", "count_rating"}
Dumps(item) ==
    [k \in DOMAIN item |->
        IF k \in Numeric THEN DecimalEncoder_default(item[k]) ELSE Str(item[k])]

(***************************************************************************)
(* The table (what boto3's Table does to the store)                        *)
(***************************************************************************)
\* What a function of the module did: the exception message it raised ("" when
\* it returned), its return value, the store afterwards and the store calls made.
Return(value, st, calls) == [error |-> "", ret |-> value, store |-> st, calls |-> calls]
Raise(message, st, calls) == [error |-> message, ret |-> Absent, store |-> st, calls |-> calls]

ConditionalCheckFailed ==
    "An error occurred (ConditionalCheckFailedException) when calling the UpdateItem operation: The conditional request failed"
BackupFailed ==
    "An error occurred (InternalServerError) when calling the CreateBackup operation"

\* productTable.put_item(Item=item): writes the item under its key, replacing
\* whatever was there.
put_item(st, item) ==
    [k \in DOMAIN st \cup {item.product_id} |->
        IF k = item.product_id THEN item ELSE st[k]]

\* Variant: a condition that always passes.
attribute_exists_always(st, key) == TRUE

\* ConditionExpression='attribute_exists(product_id)'
attribute_exists(st, key) == key \in DOMAIN st

\* The item an UpdateExpression "set product_category = :category,
\* product_title = :title" leaves under key: the old attributes (the key alone
\* when there was no item), with the two set.
SetAttributes(st, key, category, title) ==
    LET old == IF key \in DOMAIN st THEN st[key] ELSE [product_id |-> key]
    IN [a \in DOMAIN old \cup {"product_category", "product_title"} |->
           IF a = "product_category" THEN category
           ELSE IF a = "product_title" THEN title
           ELSE old[a]]

\* Variant: update_item without its ConditionExpression (an upsert).
update_item_unconditional(st, key, category, title) ==
    [ok |-> TRUE, store |-> put_item(st, SetAttributes(st, key, category, title))]

\* productTable.update_item(Key, UpdateExpression, ConditionExpression, ...):
\* one atomic conditional write.
update_item(st, key, category, title) ==
    IF attribute_exists(st, key)
    THEN [ok |-> TRUE, store |-> put_item(st, SetAttributes(st, key, category, title))]
    ELSE [ok |-> FALSE, store |-> st]

\* Variant: a delete that empties the table.
delete_item_all(st, key) == [k \in {} |-> st[k]]

\* productTable.delete_item(Key): removes the item if there is one.
delete_item(st, key) == [k \in DOMAIN st \ {key} |-> st[k]]

\* The keys of the table in scan order.
RECURSIVE KeysInOrder(_, _)
KeysInOrder(st, order) ==
    IF order = <<>> THEN <<>>
    ELSE (IF Head(order) \in DOMAIN st THEN <<Head(order)>> ELSE <<>>)
         \o KeysInOrder(st, Tail(order))

\* The part of the scan order after startKey (all of it without a start key).
RECURSIVE After(_, _)
After(order, startKey) ==
    IF startKey = Absent \/ order = <<>> THEN order
    ELSE IF Head(order) = startKey THEN Tail(order)
    ELSE After(Tail(order), startKey)

Take(seq, n) == SubSeq(seq, 1, IF Len(seq) < n THEN Len(seq) ELSE n)

\* productTable.scan(Limit, ExclusiveStartKey): the next `limit` items in scan
\* order and, when the scan stopped at the limit, the key it stopped at.  A page
\* that ends exactly at the end of the table may or may not carry the key
\* (keyAtEnd).
scan(st, order, limit, startKey, keyAtEnd) ==
    LET rest == KeysInOrder(st, After(order, startKey))
        page == Take(rest, limit)
        more == Len(rest) > Len(page)
        stoppedAtLimit == Len(page) = limit /\ (more \/ keyAtEnd)
    IN [Items |-> [i \in 1..Len(page) |-> st[page[i]]],
        LastEvaluatedKey |-> IF stoppedAtLimit THEN page[Len(page)] ELSE Absent]

(***************************************************************************)
(* The functions of the module                                             *)
(***************************************************************************)
DefaultLimit == 100

\* Variant: get_products dropping ExclusiveStartKey.
get_products_first_page(st, order, limit, lastEvaluatedKey, keyAtEnd) ==
    scan(st, order, limit, Absent, keyAtEnd)

\* get_products(limit=100, lastEvaluatedKey=None)
get_products(st, order, limit, lastEvaluatedKey, keyAtEnd) ==
    IF lastEvaluatedKey = Absent
    THEN scan(st, order, limit, Absent, keyAtEnd)
    ELSE scan(st, order, limit, lastEvaluatedKey, keyAtEnd)

\* get_product(productId): response['Item'] raises KeyError without an item.
get_product(st, productId) ==
    IF productId \in DOMAIN st
    THEN Return(st[productId], st, <<"get_item">>)
    ELSE Raise("'Item'", st, <<"get_item">>)

NewItem(uniqueID, productDetail) ==
    [product_id |-> uniqueID,
     product_category |-> productDetail.product_category.val,
     product_title |-> productDetail.product_title.val,
     sum_rating |-> 0,
     count_rating |-> 0]

\* add_product(productDetail); uniqueID is what uuid.uuid4() returns.
add_product(st, productDetail, uniqueID) ==
    LET err == validate(productDetail, product_schema)
    IN IF err # ""
       THEN Raise(err, st, <<>>)
       ELSE Return(uniqueID, put_item(st, NewItem(uniqueID, productDetail)),
                   <<"put_item">>)

\* Variant: update_product without the validate call.
update_product_unvalidated(st, productDetail) ==
    IF productDetail.kind # "object"
    THEN Raise("list indices must be integers or slices, not str", st, <<>>)
    ELSE IF ~Has(productDetail, "product_id")
    THEN Raise("'product_id'", st, <<>>)
    ELSE LET w == update_item(st, productDetail.product_id.val,
                      productDetail.product_category.val,
                      productDetail.product_title.val)
         IN IF w.ok
            THEN Return(productDetail.product_id.val, w.store, <<"update_item">>)
            ELSE Raise(ConditionalCheckFailed, w.store, <<"update_item">>)

\* update_product(productDetail)
update_product(st, productDetail) ==
    IF productDetail.kind # "object"
    THEN Raise("list indices must be integers or slices, not str", st, <<>>)
    ELSE IF ~Has(productDetail, "product_id")
    THEN Raise("'product_id'", st, <<>>)
    ELSE LET err == validate(productDetail, update_product_schema)
         IN IF err # ""
            THEN Raise(err, st, <<>>)
            ELSE LET w == update_item(st, productDetail.product_id.val,
                              productDetail.product_category.val,
                              productDetail.product_title.val)
                 IN IF w.ok
                    THEN Return(productDetail.product_id.val, w.store, <<"update_item">>)
                    ELSE Raise(ConditionalCheckFailed, w.store, <<"update_item">>)

\* delete_product(productId)
delete_product(st, productId) ==
    Return(productId, delete_item(st, productId), <<"delete_item">>)

\* create_backup(); created tells whether client.create_backup succeeded.  The
\* details returned are those of the backup; its name carries the minute of the
\* call, which is not modelled.
create_backup(st, created) ==
    IF created
    THEN Return([BackupName |-> "product_backup_", BackupType |-> "USER"],
                st, <<"create_backup">>)
    ELSE Raise(BackupFailed, st, <<"create_backup">>)

(***************************************************************************)
(* lambda_handler                                                          *)
(***************************************************************************)
Event(source, method, path, id, body) ==
    [source |-> source, httpMethod |-> method, path |-> path,
     product_id |-> id, body |-> body]

JsonHeaders == [ContentType |-> "application/json"]
Response(status, body) == [statusCode |-> status, body |-> body, headers |-> JsonHeaders]

\* What one invocation did: its response, the store afterwards, the store
\* calls it made.
Done(status, body, st, calls) ==
    [resp |-> Response(status, body), store |-> st, calls |-> calls]

\* The top-level "except Exception as e" of either try block.
Failed(message, st, calls) == Done(500, [error |-> message], st, calls)

\* Variant: the EventBridge test yielding to an 'httpMethod' in the event.
IsScheduledWithoutMethod(event) ==
    event.source = "aws.events" /\ event.httpMethod = Absent

\* 'source' in event and event['source'] == 'aws.events'
IsScheduled(event) == event.source # Absent /\ event.source = "aws.events"

\* Variant: routing on the path alone.
RouteByPath(http_method, path) ==
    CASE path = "/getProducts" -> "get_products"
      [] path = "/getProduct" -> "get_product"
      [] path = "/addProduct" -> "add_product"
      [] path = "/updateProduct" -> "update_product"
      [] path = "/deleteProduct" -> "delete_product"
      [] OTHER -> "bad_request"

\* The if/elif chain over (http_method, path).
Route(http_method, path) ==
    CASE http_method = "GET" /\ path = "/getProducts" -> "get_products"
      [] http_method = "GET" /\ path = "/getProduct" -> "get_product"
      [] http_method = "POST" /\ path = "/addProduct" -> "add_product"
      [] http_method = "PUT" /\ path = "/updateProduct" -> "update_product"
      [] http_method = "DELETE" /\ path = "/deleteProduct" -> "delete_product"
      [] OTHER -> "bad_request"

\* json.dumps(get_products(), cls=DecimalEncoder)
DumpsPage(page) ==
    [Items |-> [i \in 1..Len(page.Items) |-> Dumps(page.Items[i])],
     LastEvaluatedKey |-> page.LastEvaluatedKey]

\* lambda_handler(event, context) on store st; uniqueID is what uuid4 returns if
\* called, created whether client.create_backup succeeds if called, order and
\* keyAtEnd are the table's scan order and page-end behaviour.
lambda_handler(st, order, event, uniqueID, created, keyAtEnd) ==
    IF IsScheduled(event)
    THEN LET r == create_backup(st, created)
         IN IF r.error = ""
            THEN Done(200, [message |-> "Backup created", backup_details |-> r.ret],
                      r.store, r.calls)
            ELSE Failed(r.error, r.store, r.calls)
    ELSE IF event.httpMethod = Absent THEN Failed("'httpMethod'", st, <<>>)
    ELSE IF event.path = Absent THEN Failed("'path'", st, <<>>)
    ELSE LET route == Route(event.httpMethod, event.path)
         IN CASE route = "get_products" ->
                   Done(200,
                        DumpsPage(get_products(st, order, DefaultLimit, Absent, keyAtEnd)),
                        st, <<"scan">>)
              [] route = "get_product" ->
                   IF event.product_id = Absent
                   THEN Failed("'product_id'", st, <<>>)
                   ELSE LET r == get_product(st, event.product_id)
                        IN IF r.error = ""
                           THEN Done(200, Dumps(r.ret), r.store, r.calls)
                           ELSE Failed(r.error, r.store, r.calls)
              [] route = "add_product" ->
                   IF event.body.kind = Absent
                   THEN Failed("'body'", st, <<>>)
                   ELSE LET r == add_product(st, event.body, uniqueID)
                        IN IF r.error = ""
                           THEN Done(201, [product_id |-> r.ret], r.store, r.calls)
                           ELSE Failed(r.error, r.store, r.calls)
              [] route = "update_product" ->
                   IF event.body.kind = Absent
                   THEN Failed("'body'", st, <<>>)
                   ELSE LET r == update_product(st, event.body)
                        IN IF r.error = ""
                           THEN Done(200, [message |-> "Product updated"],
                                     r.store, r.calls)
                           ELSE Failed(r.error, r.store, r.calls)
              [] route = "delete_product" ->
                   IF event.product_id = Absent
                   THEN Failed("'product_id'", st, <<>>)
                   ELSE LET r == delete_product(st, event.product_id)
                        IN Done(200, [message |-> "Product deleted"],
                                r.store, r.calls)
              [] OTHER -> Done(400, [message |-> "Bad request"], st, <<>>)

(***************************************************************************)
(* Events                                                                  *)
(***************************************************************************)
Sources == {Absent, "aws.events", "aws.s3"}
Methods == {Absent, "GET", "POST", "PUT", "DELETE"}
Paths == {Absent, "/getProducts", "/getProduct", "/addProduct", "/updateProduct",
          "/deleteProduct", "/unknownPath"}
QueryIds == Uuids \cup {Absent}

ValidBody == ObjectBody(Str(Uuid(1)), Str("computer"), Str("computer"))

\* Every source, method and path, with a product id and a valid body.
RoutingEvents ==
    {Event(s, m, p, Uuid(1), ValidBody) : s \in Sources, m \in Methods, p \in Paths}

\* Every body, on the two routes that read one (add_product reads no
\* product_id from it).
PayloadEvents ==
    {Event(Absent, "POST", "/addProduct", Absent, b) :
        b \in {c \in Bodies : c.product_id = NoValue}}
    \cup {Event(Absent, "PUT", "/updateProduct", Absent, b) : b \in Bodies}

\* Every product id, on the two routes that read one.
QueryEvents ==
    {Event(Absent, "GET", "/getProduct", i, NoBody) : i \in QueryIds}
    \cup {Event(Absent, "DELETE", "/deleteProduct", i, NoBody) : i \in QueryIds}

Events == RoutingEvents \cup PayloadEvents \cup QueryEvents

\* The branch of lambda_handler an event takes.
Branch(event) ==
    IF IsScheduled(event) THEN "create_backup"
    ELSE IF event.httpMethod = Absent \/ event.path = Absent THEN "key_error"
    ELSE Route(event.httpMethod, event.path)

EventsOf(branch) == {event \in Events : Branch(event) = branch}
ScheduledEvents == EventsOf("create_backup")
KeyErrorEvents == EventsOf("key_error")
GetProductsEvents == EventsOf("get_products")
GetProductEvents == EventsOf("get_product")
AddProductEvents == EventsOf("add_product")
UpdateProductEvents == EventsOf("update_product")
DeleteProductEvents == EventsOf("delete_product")
BadRequestEvents == EventsOf("bad_request")

\* The add_product events that get as far as uuid.uuid4().
CallsUuid4(event) ==
    event.body.kind # Absent /\ validate(event.body, product_schema) = ""
ValidAddEvents == {event \in AddProductEvents : CallsUuid4(event)}

\* Variant: a uuid4 that may repeat an id.
uuid4_any(used) == Uuids

\* uuid.uuid4(): an id it has not returned before.
uuid4(used) == Uuids \ used

(***************************************************************************)
(* Actions                                                                 *)
(***************************************************************************)
NoEvent == Event(Absent, Absent, Absent, Absent, NoBody)
EmptyStore == [k \in {} |-> [product_id |-> k]]

\* One invocation of lambda_handler.
Invoke(event, uniqueID, created) ==
    LET r == lambda_handler(store, tableOrder, event, uniqueID, created, TRUE)
    IN /\ store' = r.store
       /\ last' = [event |-> event, resp |-> r.resp, calls |-> r.calls, before |-> store]
       /\ UNCHANGED <<tableOrder, scanVars, encVars>>

\* An EventBridge event: the backup is created or client.create_backup fails.
Scheduled ==
    \E event \in ScheduledEvents, created \in BOOLEAN :
        Invoke(event, Absent, created) /\ UNCHANGED issued

\* An event without 'httpMethod' or 'path'.
KeyError ==
    \E event \in KeyErrorEvents : Invoke(event, Absent, TRUE) /\ UNCHANGED issued

GetProducts ==
    \E event \in GetProductsEvents : Invoke(event, Absent, TRUE) /\ UNCHANGED issued

GetProduct ==
    \E event \in GetProductEvents : Invoke(event, Absent, TRUE) /\ UNCHANGED issued

\* POST /addProduct with a body that passes validation: uuid4 is called.
AddProduct ==
    \E event \in ValidAddEvents :
        \E uniqueID \in uuid4(issued) :
            Invoke(event, uniqueID, TRUE) /\ issued' = issued \cup {uniqueID}

\* POST /addProduct with no body or one that fails validation.
AddProductRejected ==
    \E event \in AddProductEvents \ ValidAddEvents :
        Invoke(event, Absent, TRUE) /\ UNCHANGED issued

UpdateProduct ==
    \E event \in UpdateProductEvents : Invoke(event, Absent, TRUE) /\ UNCHANGED issued

DeleteProduct ==
    \E event \in DeleteProductEvents : Invoke(event, Absent, TRUE) /\ UNCHANGED issued

BadRequest ==
    \E event \in BadRequestEvents : Invoke(event, Absent, TRUE) /\ UNCHANGED issued

Identity == [i \in 1..MaxUuid |-> Uuid(i)]

InitHandler ==
    /\ store = EmptyStore
    /\ issued = {}
    /\ last = [event |-> NoEvent, resp |-> Response(0, [message |-> ""]),
               calls |-> <<>>, before |-> EmptyStore]

InitScanIdle ==
    /\ scanLimit = 1
    /\ scanKey = Absent
    /\ scanItems = <<>>
    /\ scanCalls = 0
    /\ scanPc = "idle"

InitEncIdle ==
    /\ encIn = 0
    /\ encOut = [type |-> "none", scaled |-> 0]

Init ==
    /\ InitHandler
    /\ tableOrder = Identity
    /\ InitScanIdle
    /\ InitEncIdle

Next ==
    \/ Scheduled
    \/ KeyError
    \/ GetProducts
    \/ GetProduct
    \/ AddProduct
    \/ AddProductRejected
    \/ UpdateProduct
    \/ DeleteProduct
    \/ BadRequest

\* Concurrent invocations share nothing but the table, and each makes at most
\* one call to it, which DynamoDB applies atomically: their interleavings are
\* the sequences of these actions.
Spec == Init /\ [][Next]_vars

(***************************************************************************)
(* A client paging through the table with get_products                     *)
(***************************************************************************)
Fields == {"product_id", "product_category", "product_title",
           "sum_rating", "count_rating"}

\* The tables add_product, update_product and delete_product can leave.
Tables ==
    UNION {[D -> [product_id : Uuids, product_category : Texts,
                  product_title : Texts, sum_rating : {0}, count_rating : {0}]]
           : D \in SUBSET Uuids}
KeyedTables == {t \in Tables : \A k \in DOMAIN t : t[k].product_id = k}

ScanOrders ==
    {o \in [1..MaxUuid -> Uuids] : \A i, j \in 1..MaxUuid : o[i] = o[j] => i = j}

ReadPage(limit, key, keyAtEnd, calls, items) ==
    LET page == get_products(store, tableOrder, limit, key, keyAtEnd)
    IN /\ scanLimit' = limit
       /\ scanItems' = items \o page.Items
       /\ scanKey' = page.LastEvaluatedKey
       /\ scanCalls' = calls + 1
       /\ scanPc' = IF page.LastEvaluatedKey = Absent THEN "done" ELSE "paging"
       /\ UNCHANGED <<handlerVars, encVars>>

\* get_products(limit): no token, at any time.
ScanStart ==
    \E limit \in 1..MaxLimit, keyAtEnd \in BOOLEAN :
        ReadPage(limit, Absent, keyAtEnd, 0, <<>>)

\* get_products(limit, LastEvaluatedKey of the previous page)
ScanContinue ==
    /\ scanPc = "paging"
    /\ \E keyAtEnd \in BOOLEAN :
           ReadPage(scanLimit, scanKey, keyAtEnd, scanCalls, scanItems)

InitScan ==
    /\ store \in KeyedTables
    /\ tableOrder \in ScanOrders
    /\ issued = DOMAIN store
    /\ last = [event |-> NoEvent, resp |-> Response(0, [message |-> ""]),
               calls |-> <<>>, before |-> store]
    /\ InitScanIdle
    /\ InitEncIdle

NextScan == ScanStart \/ ScanContinue

SpecScan == InitScan /\ [][NextScan]_vars

(***************************************************************************)
(* A client encoding Decimals                                              *)
(***************************************************************************)
Decimals == (-MaxDecimal)..MaxDecimal

\* json.dumps(o, cls=DecimalEncoder) of a Decimal o
Encode ==
    /\ encOut.type = "none"
    /\ encOut' = DecimalEncoder_default(encIn)
    /\ UNCHANGED <<encIn, handlerVars, scanVars>>

NextDecimal ==
    /\ encOut.type # "none"
    /\ encIn' \in Decimals
    /\ encOut' = [type |-> "none", scaled |-> 0]
    /\ UNCHANGED <<handlerVars, scanVars>>

InitEnc ==
    /\ InitHandler
    /\ tableOrder = Identity
    /\ InitScanIdle
    /\ encIn \in Decimals
    /\ encOut = [type |-> "none", scaled |-> 0]

NextEnc == Encode \/ NextDecimal

SpecEnc == InitEnc /\ [][NextEnc]_vars

(***************************************************************************)
(* Properties                                                              *)
(***************************************************************************)
Status == last.resp.statusCode
Reply == last.resp.body
Is(method, path) ==
    /\ ~(last.event.source = "aws.events")
    /\ last.event.httpMethod = method
    /\ last.event.path = path
IsError == Status = 500 /\ DOMAIN Reply = {"error"} /\ Reply.error # ""

\* A body that is an object holding a string under each of the keys.
HoldsStrings(body, keys) ==
    body.kind = "object" /\ \A f \in keys : body[f].type = "string"
CreateKeys == {"product_category", "product_title"}
UpdateKeys == {"product_id", "product_category", "product_title"}

\* C1: a PUT /updateProduct with a schema-valid payload whose product_id is not
\* in the table answers 500, not 200, and leaves the table exactly as it was:
\* no record with that id is created.
C1_UpdateOfMissingIdFails ==
    (/\ Is("PUT", "/updateProduct")
     /\ HoldsStrings(last.event.body, UpdateKeys)
     /\ last.event.body.product_id.val \notin DOMAIN last.before)
    => /\ IsError
       /\ store = last.before
       /\ last.event.body.product_id.val \notin DOMAIN store

\* C1 happens: such an update was rejected while the table held other records.
C1_Witness ==
    /\ Is("PUT", "/updateProduct")
    /\ HoldsStrings(last.event.body, UpdateKeys)
    /\ last.event.body.product_id.val \notin DOMAIN last.before
    /\ last.before # EmptyStore
    /\ Status = 500

\* What GET /getProduct answers for a record created from body under id.
CreatedRecordOnWire(id, body) ==
    [product_id |-> Str(id),
     product_category |-> body.product_category,
     product_title |-> body.product_title,
     sum_rating |-> [type |-> "int", scaled |-> 0],
     count_rating |-> [type |-> "int", scaled |-> 0]]

C2_AddReturnsFreshId ==
    (Is("POST", "/addProduct") /\ HoldsStrings(last.event.body, CreateKeys))
    => /\ Status = 201
       /\ DOMAIN Reply = {"product_id"}
       /\ Reply.product_id \notin DOMAIN last.before
       /\ DOMAIN store = DOMAIN last.before \cup {Reply.product_id}
       /\ \A k \in DOMAIN last.before : store[k] = last.before[k]

C2_GetAfterAdd ==
    (/\ Is("POST", "/addProduct") /\ Status = 201
     /\ ~(last'.event.source = "aws.events")
     /\ last'.event.httpMethod = "GET" /\ last'.event.path = "/getProduct"
     /\ last'.event.product_id = Reply.product_id)
    => /\ last'.resp.statusCode = 200
       /\ last'.resp.body = CreatedRecordOnWire(Reply.product_id, last.event.body)

\* C2: a POST /addProduct with a valid category and title answers 201 with a
\* product_id that was not in the table, overwrites no record, and a GET
\* /getProduct for that id right after it answers 200 with exactly that id,
\* the supplied category and title, sum_rating 0 and count_rating 0.
C2_CreateThenGet == []C2_AddReturnsFreshId /\ [][C2_GetAfterAdd]_vars

\* C2 happens: a record was created in a table that already held one, and is
\* there to be read.
C2_Witness ==
    /\ Is("POST", "/addProduct") /\ Status = 201
    /\ last.before # EmptyStore
    /\ Reply.product_id \in DOMAIN store

\* C3: DELETE /deleteProduct answers 200 whether or not the id is in the table;
\* afterwards the id is absent, a delete of an absent id leaves the table as it
\* was, and no record with another id is removed or altered.
C3_DeleteIdempotent ==
    (Is("DELETE", "/deleteProduct") /\ last.event.product_id # Absent)
    => /\ Status = 200
       /\ Reply = [message |-> "Product deleted"]
       /\ last.event.product_id \notin DOMAIN store
       /\ DOMAIN store = DOMAIN last.before \ {last.event.product_id}
       /\ \A k \in DOMAIN store : store[k] = last.before[k]
       /\ (last.event.product_id \notin DOMAIN last.before => store = last.before)

\* C3 happens: a delete of an id that was issued and is no longer in the table
\* (a second delete), with other records present.
C3_Witness ==
    /\ Is("DELETE", "/deleteProduct")
    /\ last.event.product_id \in issued \ DOMAIN last.before
    /\ store # EmptyStore
    /\ Status = 200

RECURSIVE SeqToSet(_)
SeqToSet(seq) == IF seq = <<>> THEN {} ELSE {Head(seq)} \cup SeqToSet(Tail(seq))

\* C4: with the table unchanged, get_products(limit) without a token and then
\* with each returned LastEvaluatedKey ends, after at most one call more than
\* there are records, having returned every record exactly once; a call
\* without a token starts at the beginning of the table.
C4_ScanEnumeratesOnce ==
    /\ scanCalls <= Cardinality(DOMAIN store) + 1
    /\ Len(scanItems) <= Cardinality(DOMAIN store)
    /\ scanPc = "done" =>
          /\ Len(scanItems) = Cardinality(DOMAIN store)
          /\ SeqToSet(scanItems) = {store[k] : k \in DOMAIN store}
    /\ (scanCalls = 1 /\ store # EmptyStore) =>
          /\ scanItems # <<>>
          /\ scanItems[1] = store[Head(KeysInOrder(store, tableOrder))]

\* C4 happens: an enumeration with limit 1 of a table of at least two records
\* has ended.
C4_Witness ==
    /\ scanPc = "done"
    /\ scanLimit = 1
    /\ scanCalls >= 2
    /\ Cardinality(DOMAIN store) >= 2

IsWrite == Is("POST", "/addProduct") \/ Is("PUT", "/updateProduct")
RequiredKeys == IF Is("POST", "/addProduct") THEN CreateKeys ELSE UpdateKeys
MissingKeys == {f \in RequiredKeys : ~Has(last.event.body, f)}
Names(message, f) ==
    message \in {"'" \o f \o "'", "'" \o f \o "' is a required property"}

\* C5: a POST /addProduct or PUT /updateProduct whose body lacks a required
\* key, or holds a non-string under one, makes no store call, leaves the table
\* as it was and answers 500 with an error message; when keys are missing the
\* message names one of them, so an update body missing only product_title is
\* answered with a message naming product_title.
C5_ValidationGatesWrites ==
    (/\ IsWrite
     /\ last.event.body.kind # Absent
     /\ ~HoldsStrings(last.event.body, RequiredKeys))
    => /\ IsError
       /\ last.calls = <<>>
       /\ store = last.before
       /\ (last.event.body.kind = "object" /\ MissingKeys # {}
             => \E f \in MissingKeys : Names(Reply.error, f))

\* C5 happens: an update of a record that is in the table, with a body missing
\* only product_title, was rejected.
C5_Witness ==
    /\ Is("PUT", "/updateProduct")
    /\ last.event.body.kind = "object"
    /\ MissingKeys = {"product_title"}
    /\ last.event.body.product_id.val \in DOMAIN last.before
    /\ Status = 500
    /\ Names(Reply.error, "product_title")

\* The routing table of the spec: method, path, store call, success status.
RoutingTable ==
    {<<"GET", "/getProducts", "scan", 200>>,
     <<"GET", "/getProduct", "get_item", 200>>,
     <<"POST", "/addProduct", "put_item", 201>>,
     <<"PUT", "/updateProduct", "update_item", 200>>,
     <<"DELETE", "/deleteProduct", "delete_item", 200>>}
Routed == \E row \in RoutingTable : Is(row[1], row[2])
Synchronous ==
    /\ ~(last.event.source = "aws.events")
    /\ last.event.httpMethod # Absent
    /\ last.event.path # Absent

\* C6: a synchronous event is dispatched on its method and path alone: on a
\* pair of the routing table the only store call made is that row's and the
\* answer is that row's success status unless the action raised (500); on any
\* other pair the answer is 400 {message: "Bad request"} with no store call
\* and the table untouched; 400 is answered in no other case.
C6_RoutingByMethodAndPath ==
    /\ \A row \in RoutingTable :
          Is(row[1], row[2])
          => /\ last.calls \in {<<>>, <<row[3]>>}
             /\ Status \in {row[4], 500}
             /\ Status = row[4] => last.calls = <<row[3]>>
             /\ Status = 500 => IsError
    /\ (Synchronous /\ ~Routed)
          => /\ Status = 400
             /\ Reply = [message |-> "Bad request"]
             /\ last.calls = <<>>
             /\ store = last.before
    /\ Status = 400 => (Synchronous /\ ~Routed)

\* C6 happens: GET /unknownPath was answered 400.
C6_Witness ==
    /\ Is("GET", "/unknownPath")
    /\ Status = 400

\* C7: an event with source 'aws.events' is handled as a backup whatever else
\* it carries: create_backup is the one store call made, the table is
\* untouched, and the answer is 200 {message: "Backup created",
\* backup_details} or, when the backup fails, 500 with an error message.
C7_ScheduledIsBackupOnly ==
    last.event.source = "aws.events"
    => /\ last.calls = <<"create_backup">>
       /\ store = last.before
       /\ \/ /\ Status = 200
             /\ DOMAIN Reply = {"message", "backup_details"}
             /\ Reply.message = "Backup created"
          \/ IsError

\* C7 happens: a scheduled event that also carried DELETE /deleteProduct for a
\* record of the table was answered 200.
C7_Witness ==
    /\ last.event.source = "aws.events"
    /\ last.event.httpMethod = "DELETE"
    /\ last.event.path = "/deleteProduct"
    /\ last.event.product_id \in DOMAIN store
    /\ Status = 200

\* C8: in every reachable state every record of the table has all five
\* attributes, its product_id is its key (so no operation changes the
\* product_id of a record), and sum_rating = count_rating = 0.
C8_RecordsComplete ==
    \A k \in DOMAIN store :
        /\ DOMAIN store[k] = Fields
        /\ store[k].product_id = k
        /\ store[k].sum_rating = 0
        /\ store[k].count_rating = 0

\* C8 happens: an update arrived after the delete of its record and was
\* rejected, other records being in the table.
C8_Witness ==
    /\ Is("PUT", "/updateProduct")
    /\ HoldsStrings(last.event.body, UpdateKeys)
    /\ last.event.body.product_id.val \in issued \ DOMAIN store
    /\ last.calls = <<"update_item">>
    /\ store # EmptyStore

\* C9 as stated: every stored record has a non-empty product_category and a
\* non-empty product_title.
C9_StoredTextNonEmpty ==
    \A k \in DOMAIN store :
        store[k].product_category # "" /\ store[k].product_title # ""

\* C9 amended: category and title are required string fields.  A create or
\* update whose product_category or product_title is missing or not a string
\* is rejected and writes nothing, one whose category or title is the empty
\* string is accepted like any other string, and every stored record has a
\* string, possibly empty, as category and as title.
C9_StoredTextIsString ==
    /\ \A k \in DOMAIN store :
          store[k].product_category \in Texts /\ store[k].product_title \in Texts
    /\ (/\ IsWrite
        /\ last.event.body.kind # Absent
        /\ ~HoldsStrings(last.event.body, CreateKeys))
          => (IsError /\ store = last.before)
    /\ (/\ Is("POST", "/addProduct")
        /\ HoldsStrings(last.event.body, CreateKeys))
          => /\ Status = 201
             /\ store[Reply.product_id].product_category
                   = last.event.body.product_category.val
             /\ store[Reply.product_id].product_title
                   = last.event.body.product_title.val

\* C9 amended happens: a record with an empty category was created.
C9_Witness ==
    /\ Is("POST", "/addProduct")
    /\ last.event.body.product_category = Str("")
    /\ Status = 201
    /\ store[Reply.product_id].product_category = ""

\* C10: the encoder emits an int exactly when the Decimal has no fractional
\* part, a float otherwise, and the value emitted equals the Decimal.
C10_EncoderKeepsValue ==
    encOut.type # "none"
    => /\ (encOut.type = "int") <=> (encIn % Scale = 0)
       /\ (encOut.type = "float") <=> (encIn % Scale # 0)
       /\ encOut.scaled = encIn

====
